---- MODULE Spec2Model ----
(***************************************************************************)
(* Model of the "deploy" task of hardhat.config.ts: validation of the      *)
(* request against the per-network tables, the awaited external calls      *)
(* (getSigners, deployLiquity, deployTellorCaller, setAddresses, tx.wait)  *)
(* and the manifest write.  One action per continuation of the async       *)
(* handler: the code between two awaits runs without interruption.         *)
(*                                                                         *)
(* An optional value (T | undefined) is the set {} or {v}.                 *)
(***************************************************************************)
EXTENDS Integers, Sequences, FiniteSets, TLC

\* ---------------------------------------------------------------- bounds
MaxRuns == 2
MaxGwei == 30
MaxSeed == 40

\* ------------------------------------------------- static configuration
Undefined == {}
Some(v) == {v}
Opt(S) == {Undefined} \cup {{v} : v \in S}
TheValue(o) == CHOOSE v \in o : TRUE

Networks == {"hardhat", "dev", "testnet", "mainnet"}

\* channel names a request may carry; "./ci" names the directory of "ci"
Channels == {"default", "ci", "./ci"}

contractsVersion == "v1"

OracleNetworks == {"mainnet", "rinkeby", "kovan"}

oracleAddresses ==
  [n \in OracleNetworks |->
     CASE n = "mainnet" -> [chainlink |-> "0x5f4eC3Df9cbd43714FE2740f5E3616155c5b8419",
                            tellor    |-> "0x88dF592F8eb5D7Bd38bFeF7dEb0fBc02cf3778a0"]
       [] n = "rinkeby" -> [chainlink |-> "0x8A753747A1Fa494EC906cE90E9f37563A8AF630e",
                            tellor    |-> "0x88dF592F8eb5D7Bd38bFeF7dEb0fBc02cf3778a0"]
       [] n = "kovan"   -> [chainlink |-> "0x9326BFA02ADD2366b30bacB125260Af641031331",
                            tellor    |-> "0x20374E579832859f180536A69093A126Db1c8aE9"]]

hasOracles(network) == network \in DOMAIN oracleAddresses

WIOTXNetworks == {"mainnet", "testnet"}

wiotxAddresses ==
  [n \in WIOTXNetworks |->
     IF n = "mainnet" THEN "0xa00744882684c3e4747faefd68d283ea44099d03"
                      ELSE "0xff5fae9fe685b90841275e32c348dc4426190db0"]

hasWIOTX(network) == network \in DOMAIN wiotxAddresses

\* ------------------------------------------------------ dev-network accounts
numAccounts == 100

devChainRichAccount == "0x4d5db4107d237df6a3d58ee5f70ae63d73d7658d4026f2eefd2f204c81682cb7"

\* values process.env.DEPLOYER_PRIVATE_KEY may have
EnvKeys == Opt({"", "0xDEPLOYER_PRIVATE_KEY"})

\* Wallet.createRandom().privateKey: the key the entropy source yields in state s
RandomKey(s) == "0xrandom" \o ToString(s)

\* lines 43-51: iteration i of the loop (i = 0 .. numberOfAccounts - 1) draws
\* one key and stores it at index i, which is position i + 1 here
generateRandomAccounts(numberOfAccounts, s) ==
  [k \in 1..numberOfAccounts |-> RandomKey(s + (k - 1))]

\* line 53: process.env.DEPLOYER_PRIVATE_KEY || Wallet.createRandom().privateKey
EnvKeySet(envKey) == envKey # Undefined /\ TheValue(envKey) # ""

deployerAccount(envKey, s) == IF EnvKeySet(envKey) THEN TheValue(envKey) ELSE RandomKey(s)

\* the entropy state after line 53
AfterDeployer(envKey, s) == IF EnvKeySet(envKey) THEN s ELSE s + 1

DevRandomCount_All == numAccounts

\* line 107: generateRandomAccounts(numAccounts - 2)
DevRandomCount == numAccounts - 2

\* lines 105-108: config.networks.dev
DevNetwork(envKey, s) ==
  [url |-> "http://localhost:8545",
   accounts |-> <<deployerAccount(envKey, s), devChainRichAccount>> \o
                generateRandomAccounts(DevRandomCount, AfterDeployer(envKey, s))]

\* --------------------------------------------- arbitrary-precision naturals
\* A BigNumber is its decimal digits, most significant first, without
\* leading zeros; zero is <<0>>.
Zeros(k) == [i \in 1..k |-> 0]

RECURSIVE Strip(_)
Strip(s) == IF Len(s) > 1 /\ s[1] = 0 THEN Strip(Tail(s)) ELSE s

RECURSIVE Digits(_)
Digits(n) == IF n < 10 THEN <<n>> ELSE Digits(n \div 10) \o <<n % 10>>

BigIsZero(a) == a = <<0>>

BigMulPow10(a, k) == Strip(a \o Zeros(k))

RECURSIVE LexLess(_, _)
LexLess(a, b) ==
  IF Len(a) = 0 THEN FALSE
  ELSE IF a[1] # b[1] THEN a[1] < b[1]
  ELSE LexLess(Tail(a), Tail(b))

BigLess(a, b) ==
  IF Len(a) # Len(b) THEN Len(a) < Len(b) ELSE LexLess(a, b)

Front(s) == SubSeq(s, 1, Len(s) - 1)
Last(s) == s[Len(s)]

\* a - b - borrow on equal-length digit strings, a >= b + borrow
RECURSIVE SubDigits(_, _, _)
SubDigits(a, b, borrow) ==
  IF Len(a) = 0 THEN <<>>
  ELSE LET d == Last(a) - Last(b) - borrow
       IN  IF d < 0 THEN SubDigits(Front(a), Front(b), 1) \o <<d + 10>>
                    ELSE SubDigits(Front(a), Front(b), 0) \o <<d>>

BigSub(a, b) == Strip(SubDigits(a, Zeros(Len(a) - Len(b)) \o b, 0))

\* a * m + carry for a small multiplier m
RECURSIVE MulSmallDigits(_, _, _)
MulSmallDigits(a, m, carry) ==
  IF Len(a) = 0 THEN (IF carry = 0 THEN <<>> ELSE Digits(carry))
  ELSE LET v == Last(a) * m + carry
       IN  MulSmallDigits(Front(a), m, v \div 10) \o <<v % 10>>

BigMulSmallAdd(a, m, c) == Strip(MulSmallDigits(a, m, c))

\* how many times b fits in r (r < 10 * b), and what is left
RECURSIVE CountFits(_, _, _)
CountFits(r, b, k) ==
  IF BigLess(r, b) THEN [q |-> k, r |-> r] ELSE CountFits(BigSub(r, b), b, k + 1)

\* schoolbook long division, truncating; b is not zero
RECURSIVE LongDiv(_, _, _, _)
LongDiv(a, b, q, r) ==
  IF Len(a) = 0 THEN Strip(q)
  ELSE LET step == CountFits(Strip(r \o <<a[1]>>), b, 0)
       IN  LongDiv(Tail(a), b, q \o <<step.q>>, step.r)

BigDiv(a, b) == LongDiv(a, b, <<0>>, <<0>>)

\* quotient and remainder by a small divisor m
RECURSIVE DivSmall(_, _, _, _)
DivSmall(a, m, q, r) ==
  IF Len(a) = 0 THEN [q |-> Strip(q), r |-> r]
  ELSE LET v == r * 10 + a[1]
       IN  DivSmall(Tail(a), m, q \o <<v \div m>>, v % m)

RECURSIVE Nibbles(_)
Nibbles(a) ==
  IF BigIsZero(a) THEN <<>>
  ELSE LET s == DivSmall(a, 16, <<0>>, 0) IN Nibbles(s.q) \o <<s.r>>

\* BigNumber.toHexString(): the nibbles after "0x", padded to whole bytes
BigToHexString(a) ==
  LET h == Nibbles(a)
  IN  IF Len(h) = 0 THEN <<0, 0>>
      ELSE IF Len(h) % 2 = 1 THEN <<0>> \o h ELSE h

\* ------------------------------------------------------------- Decimal
PRECISION == 18

DecimalINFINITY ==
  <<1,1,5,7,9,2,0,8,9,2,3,7,3,1,6,1,9,5,4,2,3,5,7,0,9,8,5,0,0,8,6,8,7,9,0,7,8,5,3,
    2,6,9,9,8,4,6,6,5,6,4,0,5,6,4,0,3,9,4,5,7,5,8,4,0,0,7,9,1,3,1,2,9,6,3,9,9,3,5>>

\* Decimal.from(number) goes through number.toString(); a string with a sign
\* does not match the accepted format and Decimal.from throws.
DecimalFromThrows(n) == n < 0

DecimalFrom(n) == BigMulPow10(Digits(n), PRECISION)

DecimalDiv_Unscaled(a, divider) == BigDiv(a, DecimalFrom(divider))

DecimalDiv(a, divider) ==
  LET d == DecimalFrom(divider)
  IN  IF BigIsZero(d) THEN DecimalINFINITY
      ELSE BigDiv(BigMulPow10(a, PRECISION), d)

DecimalHex(a) == BigToHexString(a)

GweiDivider == 1000000000

\* line 189: { gasPrice: gasPrice && Decimal.from(gasPrice).div(1000000000).hex }
GasPriceThrows(gasPrice) ==
  gasPrice # Undefined /\ TheValue(gasPrice) # 0 /\ DecimalFromThrows(TheValue(gasPrice))

MakeOverrides(gasPrice) ==
  IF gasPrice = Undefined THEN [gasPrice |-> [t |-> "undefined"]]
  ELSE IF TheValue(gasPrice) = 0 THEN [gasPrice |-> [t |-> "number", n |-> 0]]
  ELSE [gasPrice |->
          [t |-> "hex",
           h |-> DecimalHex(DecimalDiv(DecimalFrom(TheValue(gasPrice)), GweiDivider))]]

\* ------------------------------------------------------------ the request
GasPrices == {-1, 20}

\* the gas prices a request may carry, here or in the conversion-only runs
AllGasPrices == Opt(GasPrices \cup (-1..MaxGwei))

\* line 189 evaluated once per possible input
OverridesFor == [g \in {x \in AllGasPrices : ~GasPriceThrows(x)} |-> MakeOverrides(g)]

DeployParams ==
  [channel : Channels,
   gasPrice : Opt(GasPrices),
   useRealPriceFeed : Opt(BOOLEAN),
   createUniswapPair : Opt(BOOLEAN)]

\* addresses the chain may hand out for a freshly deployed TellorCaller
AdapterAddresses == {"0xTellorCallerA", "0xTellorCallerB"}

VARIABLES
  pc,                  \* where the handler is suspended, or how it ended
  runNo,               \* number of task invocations so far
  params,              \* the DeployParams of the current run
  network,             \* env.network.name of the current run
  overrides,           \* local `overrides`
  useRealPriceFeed,    \* local `useRealPriceFeed` (reassigned by ??=)
  wiotxAddress,        \* local `wiotxAddress`
  deployment,          \* local `deployment`
  tellorCallerAddress, \* local `tellorCallerAddress`
  tx,                  \* local `tx`
  error,               \* what the run threw, <<>> if nothing
  trace,               \* external calls of the current run, in order
  dirs,                \* directories that exist
  files,               \* path -> content of the files that exist
  replaced,            \* content the last writeFileSync found at its path
  env,                 \* process.env.DEPLOYER_PRIVATE_KEY
  entropy,             \* state of the entropy source when the module is loaded
  config               \* the exported config, once the module is loaded

vars == <<pc, runNo, params, network, overrides, useRealPriceFeed, wiotxAddress,
          deployment, tellorCallerAddress, tx, error, trace, dirs, files, replaced,
          env, entropy, config>>

cfgvars == <<env, entropy, config>>

taskvars == <<pc, runNo, params, network, overrides, useRealPriceFeed, wiotxAddress,
              deployment, tellorCallerAddress, tx, error, trace, dirs, files, replaced>>

locals == <<overrides, useRealPriceFeed, wiotxAddress, deployment,
            tellorCallerAddress, tx>>

Event(op, ev, data) == [op |-> op, ev |-> ev, data |-> data]

NoOverrides == [gasPrice |-> [t |-> "undefined"]]

NoParams ==
  [channel |-> "default", gasPrice |-> Undefined,
   useRealPriceFeed |-> Undefined, createUniswapPair |-> Undefined]

\* no task has been invoked
NoTask ==
  /\ pc = "idle"
  /\ runNo = 0
  /\ params = NoParams
  /\ network = "hardhat"
  /\ overrides = NoOverrides
  /\ useRealPriceFeed = Undefined
  /\ wiotxAddress = Undefined
  /\ deployment = Undefined
  /\ tellorCallerAddress = Undefined
  /\ tx = Undefined
  /\ error = <<>>
  /\ trace = <<>>
  /\ dirs = {}
  /\ files = <<>>
  /\ replaced = Undefined

\* lines 91-118: the config the module exports
LoadedConfig(envKey, s) == [networks |-> [dev |-> DevNetwork(envKey, s)]]

\* the module is loaded (with the deployer key set in the environment) and
\* no task has been invoked
Init ==
  /\ NoTask
  /\ env = Some("0xDEPLOYER_PRIVATE_KEY")
  /\ entropy = 0
  /\ config = Some(LoadedConfig(env, entropy))

\* ------------------------------------------------- pieces of the handler
Truthy(o) == o # Undefined /\ TheValue(o)

ResolveUseRealPriceFeed_DefaultTrue(param, net) ==
  IF param = Undefined THEN TRUE ELSE TheValue(param)

ResolveUseRealPriceFeed_Falsy(param, net) ==
  IF param = Undefined \/ ~TheValue(param) THEN net = "mainnet" ELSE TheValue(param)

\* line 192: useRealPriceFeed ??= env.network.name === "mainnet"
ResolveUseRealPriceFeed(param, net) ==
  IF param = Undefined THEN net = "mainnet" ELSE TheValue(param)

PriceFeedUnsupported_Never(useReal, net) == FALSE

PriceFeedUnsupported_WrongTable(useReal, net) == useReal /\ ~hasWIOTX(net)

\* line 194
PriceFeedUnsupported(useReal, net) == useReal /\ ~hasOracles(net)

WIOTXUnsupported_Inverted(createUniswapPair, net) ==
  Truthy(createUniswapPair) /\ hasWIOTX(net)

\* lines 199-200
WIOTXUnsupported(createUniswapPair, net) == Truthy(createUniswapPair) /\ ~hasWIOTX(net)

\* table[key] as JavaScript reads it: undefined for a key that is not there
Lookup(table, key) == IF key \in DOMAIN table THEN Some(table[key]) ELSE Undefined

ResolveWiotxAddress_Unconditional(createUniswapPair, net) == Lookup(wiotxAddresses, net)

\* lines 198-204
ResolveWiotxAddress(createUniswapPair, net) ==
  IF Truthy(createUniswapPair) THEN Lookup(wiotxAddresses, net) ELSE Undefined

DeployAndSetupArgs_SameFlag(useReal, net, wiotx, ovr) ==
  [useTestPriceFeed |-> useReal,
   isDev |-> (net = "dev"),
   wiotxAddress |-> wiotx,
   overrides |-> ovr]

\* lines 150-157: what env.deployLiquity passes to deployAndSetupContracts
DeployAndSetupArgs(useReal, net, wiotx, ovr) ==
  [useTestPriceFeed |-> ~useReal,
   isDev |-> (net = "dev"),
   wiotxAddress |-> wiotx,
   overrides |-> ovr]

\* utils/deploy: the record deployAndSetupContracts returns
DeployAndSetupContracts(args, now) ==
  [version |-> "unknown",
   deploymentDate |-> now,
   priceFeedIsTestnet |-> args.useTestPriceFeed]

\* line 159: { ...deployment, version: contractsVersion }
StampVersion(rec) == [rec EXCEPT !.version = contractsVersion]

\* lines 211-213: _priceFeedIsTestnet(_connectToContracts(...).priceFeed)
PriceFeedIsTestnet(dep) == dep.priceFeedIsTestnet

WiresOracles_Never(useReal, net) == FALSE

WiresOracles_AnyRequest(useReal, net) == hasOracles(net)

\* lines 210 and 215
WiresOracles(useReal, net) == useReal /\ hasOracles(net)

\* lines 216-221
TellorCallerArgs(net, ovr) == [tellor |-> oracleAddresses[net].tellor, overrides |-> ovr]

SetAddressesArgs_OracleAsAdapter(net, adapter, ovr) ==
  [chainlink |-> oracleAddresses[net].chainlink,
   tellorCaller |-> oracleAddresses[net].tellor,
   overrides |-> ovr]

\* lines 225-229
SetAddressesArgs(net, adapter, ovr) ==
  [chainlink |-> oracleAddresses[net].chainlink,
   tellorCaller |-> adapter,
   overrides |-> ovr]

\* a path string cut at its separators
SplitPath(name) == IF name = "./ci" THEN <<".", "ci">> ELSE <<name>>

\* path.normalize on segments: "." and "" vanish, ".." takes back a segment
RECURSIVE NormalizeSegments(_, _)
NormalizeSegments(segs, out) ==
  IF Len(segs) = 0 THEN out
  ELSE IF segs[1] \in {".", ""} THEN NormalizeSegments(Tail(segs), out)
  ELSE IF segs[1] = ".." /\ Len(out) > 0 /\ Last(out) # ".."
    THEN NormalizeSegments(Tail(segs), Front(out))
  ELSE NormalizeSegments(Tail(segs), Append(out, segs[1]))

RECURSIVE JoinSegments(_)
JoinSegments(parts) ==
  IF Len(parts) = 0 THEN <<>> ELSE SplitPath(parts[1]) \o JoinSegments(Tail(parts))

\* path.join(...parts): the segments of the normalized path
PathJoin(parts) == NormalizeSegments(JoinSegments(parts), <<>>)

\* line 235: path.join("deployments", channel)
ChannelDir(channel) == PathJoin(<<"deployments", channel>>)

\* line 238: path.join("deployments", channel, `${env.network.name}.json`)
ManifestPath(channel, net) == PathJoin(<<"deployments", channel, net \o ".json">>)

\* line 239: JSON.stringify(deployment, undefined, 2): the members in order,
\* each as its name and the text of its value
JSONstringify(dep) ==
  << <<"version", dep.version>>,
     <<"deploymentDate", ToString(dep.deploymentDate)>>,
     <<"_priceFeedIsTestnet", IF dep.priceFeedIsTestnet THEN "true" ELSE "false">> >>

\* line 235: fs.mkdirSync(dir, { recursive: true })
MkdirSync(ds, dir) == ds \cup {SubSeq(dir, 1, k) : k \in 1..Len(dir)}

WriteFileSync_KeepExisting(fs, path, data) ==
  [p \in DOMAIN fs \cup {path} |-> IF p \in DOMAIN fs THEN fs[p] ELSE data]

\* lines 237-240: fs.writeFileSync(path, data)
WriteFileSync(fs, path, data) ==
  [p \in DOMAIN fs \cup {path} |-> IF p = path THEN data ELSE fs[p]]

FsOutcomes == {"ok", "mkdirThrows", "writeThrows"}

\* lines 235-244, reached from the continuation that finishes the run
Persist(dep, fsOutcome, tr) ==
  LET dir  == ChannelDir(params.channel)
      path == ManifestPath(params.channel, network)
      data == JSONstringify(dep)
  IN  /\ dirs' = IF fsOutcome = "mkdirThrows" THEN dirs ELSE MkdirSync(dirs, dir)
      /\ files' = IF fsOutcome = "ok" THEN WriteFileSync(files, path, data) ELSE files
      /\ replaced' = IF fsOutcome # "ok" THEN replaced
                     ELSE IF path \in DOMAIN files THEN Some(files[path]) ELSE Undefined
      /\ pc' = IF fsOutcome = "ok" THEN "done" ELSE "failed"
      /\ error' = IF fsOutcome = "ok" THEN <<>> ELSE <<"fs", fsOutcome>>
      /\ trace' =
           IF fsOutcome = "mkdirThrows" THEN tr \o <<Event("mkdirSync", "throw", dir)>>
           ELSE IF fsOutcome = "writeThrows"
             THEN tr \o <<Event("mkdirSync", "return", dir),
                          Event("writeFileSync", "throw", path)>>
           ELSE tr \o <<Event("mkdirSync", "return", dir),
                        Event("writeFileSync", "return", [path |-> path, data |-> data])>>

\* ---------------------------------------------------------------- actions
\* lines 188-190: the task is invoked; overrides are built, getSigners awaited
Invoke(p, net) ==
  /\ UNCHANGED cfgvars
  /\ pc \in {"idle", "done", "failed"}
  /\ runNo < MaxRuns
  /\ runNo' = runNo + 1
  /\ params' = p
  /\ network' = net
  /\ useRealPriceFeed' = p.useRealPriceFeed
  /\ wiotxAddress' = Undefined
  /\ deployment' = Undefined
  /\ tellorCallerAddress' = Undefined
  /\ tx' = Undefined
  /\ IF GasPriceThrows(p.gasPrice)
       THEN /\ overrides' = NoOverrides
            /\ pc' = "failed"
            /\ error' = <<"bad decimal format">>
            /\ trace' = <<>>
       ELSE /\ overrides' = OverridesFor[p.gasPrice]
            /\ pc' = "getSigners"
            /\ error' = <<>>
            /\ trace' = <<Event("getSigners", "call", <<>>)>>
  /\ UNCHANGED <<dirs, files, replaced>>

GetSignersReturns_WETHFirst ==
  /\ UNCHANGED cfgvars
  /\ pc = "getSigners"
  /\ LET useReal == ResolveUseRealPriceFeed(useRealPriceFeed, network)
         tr == trace \o <<Event("getSigners", "return", <<>>)>>
     IN  /\ useRealPriceFeed' = Some(useReal)
         /\ IF WIOTXUnsupported(params.createUniswapPair, network)
              THEN /\ pc' = "failed"
                   /\ error' = <<"WETH not deployed on", network>>
                   /\ wiotxAddress' = wiotxAddress
                   /\ trace' = tr
            ELSE IF PriceFeedUnsupported(useReal, network)
              THEN /\ pc' = "failed"
                   /\ error' = <<"PriceFeed not supported on", network>>
                   /\ wiotxAddress' = wiotxAddress
                   /\ trace' = tr
            ELSE LET wiotx == ResolveWiotxAddress(params.createUniswapPair, network)
                 IN  /\ pc' = "deployLiquity"
                     /\ error' = error
                     /\ wiotxAddress' = wiotx
                     /\ trace' = tr \o
                          <<Event("deployAndSetupContracts", "call",
                                  DeployAndSetupArgs(useReal, network, wiotx, overrides))>>
  /\ UNCHANGED <<runNo, params, network, overrides, deployment,
                 tellorCallerAddress, tx, dirs, files, replaced>>

\* lines 190-208: signers arrive; defaulting, the two capability checks,
\* then env.deployLiquity is called and awaited
GetSignersReturns ==
  /\ UNCHANGED cfgvars
  /\ pc = "getSigners"
  /\ LET useReal == ResolveUseRealPriceFeed(useRealPriceFeed, network)
         tr == trace \o <<Event("getSigners", "return", <<>>)>>
     IN  /\ useRealPriceFeed' = Some(useReal)
         /\ IF PriceFeedUnsupported(useReal, network)
              THEN /\ pc' = "failed"
                   /\ error' = <<"PriceFeed not supported on", network>>
                   /\ wiotxAddress' = wiotxAddress
                   /\ trace' = tr
            ELSE IF WIOTXUnsupported(params.createUniswapPair, network)
              THEN /\ pc' = "failed"
                   /\ error' = <<"WETH not deployed on", network>>
                   /\ wiotxAddress' = wiotxAddress
                   /\ trace' = tr
            ELSE LET wiotx == ResolveWiotxAddress(params.createUniswapPair, network)
                 IN  /\ pc' = "deployLiquity"
                     /\ error' = error
                     /\ wiotxAddress' = wiotx
                     /\ trace' = tr \o
                          <<Event("deployAndSetupContracts", "call",
                                  DeployAndSetupArgs(useReal, network, wiotx, overrides))>>
  /\ UNCHANGED <<runNo, params, network, overrides, deployment,
                 tellorCallerAddress, tx, dirs, files, replaced>>

\* lines 150-159 and 208-221 (or 208-244 when no oracle is wired)
DeployLiquityReturns(fsOutcome) ==
  /\ UNCHANGED cfgvars
  /\ pc = "deployLiquity"
  /\ LET useReal == TheValue(useRealPriceFeed)
         rec == DeployAndSetupContracts(
                  DeployAndSetupArgs(useReal, network, wiotxAddress, overrides), runNo)
         dep == StampVersion(rec)
         tr  == trace \o <<Event("deployAndSetupContracts", "return", rec)>>
     IN  /\ deployment' = Some(dep)
         /\ IF useReal /\ PriceFeedIsTestnet(dep)
              THEN /\ pc' = "failed"
                   /\ error' = <<"AssertionError">>
                   /\ trace' = tr
                   /\ UNCHANGED <<dirs, files, replaced>>
            ELSE IF WiresOracles(useReal, network)
              THEN /\ pc' = "deployTellorCaller"
                   /\ error' = error
                   /\ trace' = tr \o <<Event("deployTellorCaller", "call",
                                             TellorCallerArgs(network, overrides))>>
                   /\ UNCHANGED <<dirs, files, replaced>>
            ELSE Persist(dep, fsOutcome, tr)
  /\ UNCHANGED <<runNo, params, network, overrides, useRealPriceFeed, wiotxAddress,
                 tellorCallerAddress, tx>>

\* lines 216-229: the adapter is deployed; setAddresses is submitted
DeployTellorCallerReturns(addr) ==
  /\ UNCHANGED cfgvars
  /\ pc = "deployTellorCaller"
  /\ tellorCallerAddress' = Some(addr)
  /\ pc' = "setAddresses"
  /\ trace' = trace \o
       <<Event("deployTellorCaller", "return", addr),
         Event("setAddresses", "call", SetAddressesArgs(network, addr, overrides))>>
  /\ UNCHANGED <<runNo, params, network, overrides, useRealPriceFeed, wiotxAddress,
                 deployment, tx, error, dirs, files, replaced>>

SetAddressesReturns_WaitNotAwaited ==
  /\ UNCHANGED cfgvars
  /\ pc = "setAddresses"
  /\ tx' = Some("setAddresses")
  /\ \E o \in FsOutcomes :
       Persist(TheValue(deployment), o,
               trace \o <<Event("setAddresses", "return", "tx"), Event("wait", "call", "tx")>>)
  /\ UNCHANGED <<runNo, params, network, overrides, useRealPriceFeed, wiotxAddress,
                 deployment, tellorCallerAddress>>

\* lines 225-231: the transaction is handed back; its confirmation is awaited
SetAddressesReturns ==
  /\ UNCHANGED cfgvars
  /\ pc = "setAddresses"
  /\ tx' = Some("setAddresses")
  /\ pc' = "wait"
  /\ trace' = trace \o
       <<Event("setAddresses", "return", "tx"), Event("wait", "call", "tx")>>
  /\ UNCHANGED <<runNo, params, network, overrides, useRealPriceFeed, wiotxAddress,
                 deployment, tellorCallerAddress, error, dirs, files, replaced>>

\* lines 231-244: the transaction is mined; the manifest is written
WaitReturns(fsOutcome) ==
  /\ UNCHANGED cfgvars
  /\ pc = "wait"
  /\ Persist(TheValue(deployment), fsOutcome,
             trace \o <<Event("wait", "return", "receipt")>>)
  /\ UNCHANGED <<runNo, params, network, locals>>

Awaiting == {"getSigners", "deployLiquity", "deployTellorCaller", "setAddresses", "wait"}

AwaitedOp(at) == IF at = "deployLiquity" THEN "deployAndSetupContracts" ELSE at

Rejects_Retry ==
  /\ UNCHANGED cfgvars
  /\ pc \in Awaiting
  /\ pc' = pc
  /\ error' = error
  /\ trace' = trace \o <<Event(AwaitedOp(pc), "throw", <<>>),
                          Event(AwaitedOp(pc), "call", <<>>)>>
  /\ UNCHANGED <<runNo, params, network, locals, dirs, files, replaced>>

\* any awaited promise may reject; the error leaves the handler
Rejects ==
  /\ UNCHANGED cfgvars
  /\ pc \in Awaiting
  /\ pc' = "failed"
  /\ error' = <<"rejected", AwaitedOp(pc)>>
  /\ trace' = trace \o <<Event(AwaitedOp(pc), "throw", <<>>)>>
  /\ UNCHANGED <<runNo, params, network, locals, dirs, files, replaced>>

Next ==
  \/ \E p \in DeployParams, net \in Networks : Invoke(p, net)
  \/ GetSignersReturns
  \/ \E o \in FsOutcomes : DeployLiquityReturns(o)
  \/ \E a \in AdapterAddresses : DeployTellorCallerReturns(a)
  \/ SetAddressesReturns
  \/ \E o \in FsOutcomes : WaitReturns(o)
  \/ Rejects

Spec == Init /\ [][Next]_vars

\* runs that only vary the gas price (and the network), for the conversion
GasParams ==
  {[channel |-> "default", gasPrice |-> g,
    useRealPriceFeed |-> Undefined, createUniswapPair |-> Undefined] : g \in AllGasPrices}

NextGas ==
  \/ \E p \in GasParams, net \in Networks : Invoke(p, net)
  \/ GetSignersReturns
  \/ \E o \in FsOutcomes : DeployLiquityReturns(o)
  \/ \E a \in AdapterAddresses : DeployTellorCallerReturns(a)
  \/ SetAddressesReturns
  \/ \E o \in FsOutcomes : WaitReturns(o)
  \/ Rejects

SpecGas == Init /\ [][NextGas]_vars

\* the module is about to be loaded: any deployer key setting, any entropy
InitAccounts ==
  /\ NoTask
  /\ env \in EnvKeys
  /\ entropy \in 0..MaxSeed
  /\ config = Undefined

\* lines 23-118: the module body runs, synchronously, and builds the config
LoadConfig ==
  /\ config = Undefined
  /\ config' = Some(LoadedConfig(env, entropy))
  /\ UNCHANGED <<env, entropy, taskvars>>

NextAccounts == LoadConfig

SpecAccounts == InitAccounts /\ [][NextAccounts]_vars

\* ------------------------------------------------- reading the call trace
Idx(op, ev) == {i \in DOMAIN trace : trace[i].op = op /\ trace[i].ev = ev}

HasEvent(op, ev) == Idx(op, ev) # {}

HasOp(op) == \E i \in DOMAIN trace : trace[i].op = op

\* every (op2, ev2) in the trace comes after some (op1, ev1)
Precedes(op1, ev1, op2, ev2) ==
  \A j \in Idx(op2, ev2) : \E i \in Idx(op1, ev1) : i < j

Threw == \E i \in DOMAIN trace : trace[i].ev = "throw"

Ended == pc \in {"done", "failed"}

ManifestWritten == HasEvent("writeFileSync", "return")

RequestedRealPriceFeed == params.useRealPriceFeed = Some(TRUE)

RequestedUniswapPair == params.createUniswapPair = Some(TRUE)

\* the value useRealPriceFeed takes for the current request
Wanted == IF params.useRealPriceFeed = Undefined THEN network = "mainnet"
          ELSE TheValue(params.useRealPriceFeed)

PriceFeedError == <<"PriceFeed not supported on", network>>

WETHError == <<"WETH not deployed on", network>>

\* ------------------------------------------------------------------- C1
\* every step the manifest write has to wait for has completed
AllStepsSucceeded ==
  /\ error = <<>>
  /\ ~Threw
  /\ HasEvent("getSigners", "return")
  /\ Wanted => network \in OracleNetworks
  /\ RequestedUniswapPair => network \in WIOTXNetworks
  /\ HasEvent("deployAndSetupContracts", "return")
  /\ deployment # Undefined
  /\ Wanted => ~TheValue(deployment).priceFeedIsTestnet
  /\ (Wanted /\ network \in OracleNetworks) =>
       /\ HasEvent("deployTellorCaller", "return")
       /\ HasEvent("setAddresses", "return")
       /\ HasEvent("wait", "return")
       /\ Precedes("wait", "return", "writeFileSync", "return")
  /\ Precedes("deployAndSetupContracts", "return", "writeFileSync", "return")

\* C1: a step changes a manifest file only if it completes a run in which
\* validation, deploy-and-setup, the price-feed assertion and (when oracle
\* wiring applies) the adapter deployment and the setAddresses confirmation
\* have all succeeded; a run in which a step fails changes no manifest.
C1_ManifestOnlyAfterSuccess ==
  [][(files' # files \/ ManifestWritten') => (pc' = "done" /\ AllStepsSucceeded')]_vars

C1_Witness ==
  /\ pc = "done"
  /\ ManifestWritten
  /\ HasEvent("wait", "return")
  /\ ManifestPath(params.channel, network) \in DOMAIN files

\* ------------------------------------------------------------------- C2
C2_Case == runNo > 0 /\ ~hasOracles(network) /\ RequestedRealPriceFeed

NoDeploymentCall ==
  /\ ~HasOp("deployAndSetupContracts")
  /\ ~HasOp("deployTellorCaller")
  /\ ~HasOp("setAddresses")
  /\ ~HasOp("wait")
  /\ ~HasOp("mkdirSync")
  /\ ~HasOp("writeFileSync")
  /\ deployment = Undefined
  /\ pc \in {"getSigners", "failed"}

\* C2 as stated: on a network without oracles a run that asks for the real
\* price feed ends with the configuration error, before any deployment call.
C2_Original ==
  C2_Case => /\ NoDeploymentCall
             /\ Ended => error = PriceFeedError

\* C2: on a network without oracles a run that asks for the real price feed
\* fails before any deployment call, transaction or manifest write; the
\* failure is the configuration error naming the network unless the gas
\* price conversion or the signer lookup, which come first, failed.
C2_FailsBeforeDeployment ==
  C2_Case => /\ NoDeploymentCall
             /\ Ended => error \in {PriceFeedError, <<"bad decimal format">>,
                                    <<"rejected", "getSigners">>}
             /\ (Ended /\ HasEvent("getSigners", "return")) => error = PriceFeedError

C2_Witness ==
  /\ C2_Case
  /\ pc = "failed"
  /\ error = PriceFeedError
  /\ network = "testnet"

\* ------------------------------------------------------------------- C3
C3_Case == runNo > 0 /\ ~hasWIOTX(network) /\ RequestedUniswapPair

\* C3 as stated: on a network without a wrapped native token a run that asks
\* for the Uniswap pair ends with a configuration error, before any
\* deployment call.
C3_Original ==
  C3_Case => /\ NoDeploymentCall
             /\ Ended => error \in {WETHError, PriceFeedError}

\* C3: on a network without a wrapped native token a run that asks for the
\* Uniswap pair fails before any deployment call, transaction or manifest
\* write; the failure is a configuration error unless the gas price
\* conversion or the signer lookup, which come first, failed.
C3_FailsBeforeDeployment ==
  C3_Case => /\ NoDeploymentCall
             /\ Ended => error \in {WETHError, PriceFeedError, <<"bad decimal format">>,
                                    <<"rejected", "getSigners">>}
             /\ (Ended /\ HasEvent("getSigners", "return")) =>
                  error = IF Wanted THEN PriceFeedError ELSE WETHError

C3_Witness ==
  /\ C3_Case
  /\ pc = "failed"
  /\ error = WETHError
  /\ network = "dev"

\* ------------------------------------------------------------------- C4
OracleCall(i) == trace[i].op \in {"deployTellorCaller", "setAddresses", "wait"}

\* C4: once deploy-and-setup has returned a record, the oracle wiring step
\* has been invoked exactly if the resolved useRealPriceFeed is true and the
\* network has oracles; with useRealPriceFeed false the run makes no
\* oracle-related call at all.
C4_WiringIff ==
  deployment # Undefined =>
    /\ HasEvent("deployTellorCaller", "call") <=>
         (useRealPriceFeed = Some(TRUE) /\ network \in OracleNetworks)
    /\ useRealPriceFeed = Some(FALSE) => \A i \in DOMAIN trace : ~OracleCall(i)

C4_Witness ==
  /\ deployment # Undefined
  /\ useRealPriceFeed = Some(TRUE)
  /\ HasEvent("deployTellorCaller", "call")
  /\ pc = "done"

\* ------------------------------------------------------------------- C5
\* C5: setAddresses is submitted only after deployTellorCaller has returned,
\* with the address that call returned in this run, and the run goes on to
\* the manifest only after the setAddresses transaction has been mined.
C5_WiringOrder ==
  /\ \A j \in Idx("setAddresses", "call") :
       \E i \in Idx("deployTellorCaller", "return") :
         /\ i < j
         /\ trace[j].data.tellorCaller = trace[i].data
         /\ tellorCallerAddress = Some(trace[i].data)
  /\ Precedes("setAddresses", "return", "wait", "call")
  /\ HasOp("deployTellorCaller") =>
       /\ Precedes("wait", "return", "mkdirSync", "return")
       /\ Precedes("wait", "return", "mkdirSync", "throw")
       /\ Precedes("wait", "return", "writeFileSync", "return")
       /\ pc = "done" => HasEvent("wait", "return")

C5_Witness ==
  /\ pc = "done"
  /\ HasEvent("setAddresses", "call")
  /\ HasEvent("wait", "return")
  /\ tellorCallerAddress = Some("0xTellorCallerB")

\* ------------------------------------------------------------------- C6
\* C6: once resolved, useRealPriceFeed is the supplied value when one was
\* supplied, and otherwise is true exactly on mainnet.
C6_Resolved ==
  HasEvent("getSigners", "return") =>
    /\ params.useRealPriceFeed = Undefined =>
         useRealPriceFeed = Some(network = "mainnet")
    /\ params.useRealPriceFeed # Undefined =>
         useRealPriceFeed = params.useRealPriceFeed

C6_Witness ==
  /\ HasEvent("getSigners", "return")
  /\ params.useRealPriceFeed = Undefined
  /\ network = "mainnet"
  /\ useRealPriceFeed = Some(TRUE)

\* ------------------------------------------------------------------- C7
\* C7: a run with channel "ci" on testnet with useRealPriceFeed and
\* createUniswapPair both true, in which no external call fails, ends with
\* the oracles wired exactly once and deployments/ci/testnet.json written.
C7_TestnetScenario ==
  ( /\ runNo > 0
    /\ params.channel = "ci"
    /\ network = "testnet"
    /\ RequestedRealPriceFeed
    /\ RequestedUniswapPair
    /\ ~GasPriceThrows(params.gasPrice)
    /\ Ended
    /\ ~Threw )
  => /\ pc = "done"
     /\ Cardinality(Idx("deployTellorCaller", "call")) = 1
     /\ Cardinality(Idx("setAddresses", "call")) = 1
     /\ ManifestPath("ci", "testnet") \in DOMAIN files

\* ------------------------------------------------------------------- C8
HasMember(data, name) == \E i \in DOMAIN data : data[i][1] = name

HasText(data, text) == \E i \in DOMAIN data : data[i][2] = text

\* C8: after a successful run that wired the oracles, the manifest holds the
\* version member and the address of the adapter deployed in that run.
C8_ManifestHasAdapter ==
  (pc = "done" /\ HasEvent("deployTellorCaller", "return")) =>
    LET data == files[ManifestPath(params.channel, network)]
    IN  /\ HasMember(data, "version")
        /\ HasText(data, TheValue(tellorCallerAddress))

\* ------------------------------------------------------------------- C9
Manifests == {ManifestPath(c, n) : c \in Channels, n \in Networks}

RECURSIVE HexToBig(_, _)
HexToBig(h, acc) ==
  IF Len(h) = 0 THEN acc ELSE HexToBig(Tail(h), BigMulSmallAdd(acc, 16, h[1]))

CarriesOverrides(i) ==
  /\ trace[i].ev = "call"
  /\ trace[i].op \in {"deployAndSetupContracts", "deployTellorCaller", "setAddresses"}

\* C10: for a positive whole gasPrice g the overrides carry the hex encoding
\* of g * 10^9, with no gasPrice they carry none, and these are the overrides
\* every deployment call of the run receives.
C10_GasPriceInWei ==
  (runNo > 0 /\ error # <<"bad decimal format">>) =>
    /\ (params.gasPrice # Undefined /\ TheValue(params.gasPrice) > 0) =>
         /\ overrides.gasPrice.t = "hex"
         /\ HexToBig(overrides.gasPrice.h, <<0>>) =
              Digits(TheValue(params.gasPrice)) \o <<0, 0, 0, 0, 0, 0, 0, 0, 0>>
    /\ params.gasPrice = Undefined => overrides.gasPrice = [t |-> "undefined"]
    /\ \A i \in DOMAIN trace : CarriesOverrides(i) => trace[i].data.overrides = overrides

C10_Witness ==
  /\ pc = "done"
  /\ params.gasPrice = Some(20)
  /\ overrides.gasPrice = [t |-> "hex", h |-> <<0, 4, 10, 8, 1, 7, 12, 8, 0, 0>>]
  /\ HasEvent("setAddresses", "call")

\* ------------------------------------------------------------------ C11
GeneratedKeys == {RandomKey(s) : s \in entropy..(entropy + numAccounts)}

\* C11: the dev network's account list has exactly 100 entries; the first is
\* the deployer key (the one set in the environment when one is set), the
\* second the fixed rich key, the other 98 are generated keys.
C11_DevAccounts ==
  config # Undefined =>
    LET accounts == TheValue(config).networks.dev.accounts
    IN  /\ Len(accounts) = 100
        /\ accounts[1] = IF env \in {Undefined, Some("")} THEN RandomKey(entropy)
                         ELSE TheValue(env)
        /\ accounts[2] = "0x4d5db4107d237df6a3d58ee5f70ae63d73d7658d4026f2eefd2f204c81682cb7"
        /\ \A k \in 3..Len(accounts) : accounts[k] \in GeneratedKeys
        /\ Cardinality({k \in 3..Len(accounts) : accounts[k] \in GeneratedKeys}) = 98

C11_Witness ==
  /\ config # Undefined
  /\ env = Some("0xDEPLOYER_PRIVATE_KEY")
  /\ entropy = MaxSeed
  /\ TheValue(config).networks.dev.accounts[1] = "0xDEPLOYER_PRIVATE_KEY"
  /\ TheValue(config).networks.dev.accounts[100] \in GeneratedKeys

\* ------------------------------------------------------------------ C12
FailsBothChecks ==
  /\ runNo > 0
  /\ Wanted /\ ~hasOracles(network)
  /\ RequestedUniswapPair /\ ~hasWIOTX(network)

ChecksPassed == HasOp("deployAndSetupContracts")

Converted == overrides.gasPrice.t = "hex"

ConversionFailed == error = <<"bad decimal format">>

\* C12 as stated: the gas price is converted, or its conversion fails, only
\* after both capability checks have passed, and a request that violates
\* both checks ends with the PriceFeed error.
C12_Original ==
  /\ Converted => ChecksPassed
  /\ ConversionFailed => ~FailsBothChecks
  /\ (FailsBothChecks /\ Ended) => error = PriceFeedError

\* C12: the gas price is converted first, before the signer lookup and the
\* checks; then useRealPriceFeed is resolved, the oracle check comes before
\* the wrapped-token check, and wiotxAddress is resolved after both.  A
\* request that violates both checks ends with the PriceFeed error once its
\* gas price has converted and the signers have arrived.
C12_Order ==
  /\ (runNo > 0 /\ ~ConversionFailed) =>
       (params.gasPrice \in {Some(g) : g \in 1..MaxGwei} => Converted)
  /\ ConversionFailed =>
       /\ trace = <<>>
       /\ useRealPriceFeed = params.useRealPriceFeed
       /\ wiotxAddress = Undefined
  /\ pc = "getSigners" =>
       /\ useRealPriceFeed = params.useRealPriceFeed
       /\ wiotxAddress = Undefined
  /\ (FailsBothChecks /\ Ended /\ HasEvent("getSigners", "return")) =>
       error = PriceFeedError
  /\ error = PriceFeedError =>
       /\ useRealPriceFeed = Some(TRUE)
       /\ wiotxAddress = Undefined
  /\ error = WETHError =>
       /\ useRealPriceFeed = Some(Wanted)
       /\ ~(Wanted /\ ~hasOracles(network))
       /\ wiotxAddress = Undefined
  /\ wiotxAddress # Undefined => ChecksPassed

C12_Witness ==
  /\ FailsBothChecks
  /\ pc = "failed"
  /\ error = PriceFeedError
  /\ params.gasPrice = Some(20)
  /\ Converted

\* ------------------------------------------------------------------ C13
\* C13: every call of deploy-and-setup gets "use test price feed" equal to
\* the negation of the resolved useRealPriceFeed, "is dev network" true
\* exactly on dev, and as wrapped-token address the current network's table
\* entry when createUniswapPair is true and undefined otherwise.
C13_DeployArguments ==
  \A i \in Idx("deployAndSetupContracts", "call") :
    /\ useRealPriceFeed = Some(Wanted)
    /\ trace[i].data.useTestPriceFeed = ~Wanted
    /\ trace[i].data.isDev = (network = "dev")
    /\ trace[i].data.wiotxAddress =
         IF RequestedUniswapPair THEN Some(wiotxAddresses[network]) ELSE Undefined

C13_Witness ==
  /\ network = "testnet"
  /\ RequestedUniswapPair
  /\ \E i \in Idx("deployAndSetupContracts", "call") :
       /\ trace[i].data.wiotxAddress = Some("0xff5fae9fe685b90841275e32c348dc4426190db0")
       /\ trace[i].data.useTestPriceFeed
       /\ ~trace[i].data.isDev

\* ------------------------------------------------------------------ C14
\* C14: the assertion on the deployed price feed never fails, and every
\* oracle-wiring call is made after a record with a real (not test) price
\* feed has been returned.
C14_AssertionHolds ==
  /\ error # <<"AssertionError">>
  /\ \A i \in DOMAIN trace :
       OracleCall(i) =>
         /\ deployment # Undefined
         /\ ~TheValue(deployment).priceFeedIsTestnet
         /\ \E j \in Idx("deployAndSetupContracts", "return") :
              j < i /\ ~trace[j].data.priceFeedIsTestnet

C14_Witness ==
  /\ HasEvent("setAddresses", "call")
  /\ deployment # Undefined
  /\ ~TheValue(deployment).priceFeedIsTestnet
  /\ useRealPriceFeed = Some(TRUE)

\* ------------------------------------------------------------------ C15
AtMostOnce(op, ev) == Cardinality(Idx(op, ev)) <= 1

NoRetry ==
  /\ AtMostOnce("deployAndSetupContracts", "call")
  /\ AtMostOnce("deployTellorCaller", "call")
  /\ AtMostOnce("setAddresses", "call")
  /\ AtMostOnce("wait", "call")
  /\ AtMostOnce("mkdirSync", "return") /\ AtMostOnce("mkdirSync", "throw")
  /\ AtMostOnce("writeFileSync", "return") /\ AtMostOnce("writeFileSync", "throw")
  /\ \A i \in DOMAIN trace : trace[i].ev = "throw" => (i = Len(trace) /\ pc = "failed")
  /\ error # <<>> => pc = "failed"
  /\ pc = "failed" => (trace = <<>> \/ Last(trace).ev # "call")

\* C15: in one run each external step is performed at most once, the first
\* failure ends the run, and a failed run performs no further external
\* action and changes nothing on disk.
C15_NoRetries ==
  [][/\ NoRetry'
     /\ (pc = "failed" /\ runNo' = runNo) => UNCHANGED <<trace, dirs, files>>]_vars

C15_Witness ==
  /\ pc = "failed"
  /\ error = <<"rejected", "setAddresses">>
  /\ HasEvent("deployTellorCaller", "return")
  /\ Last(trace).ev = "throw"

\* ------------------------------------------------------------------ C16
Completion(i) == trace[i].ev \in {"return", "throw"}

\* C16: a call is always answered before the next one is made, so at most
\* one call is in flight (the last one in the trace, while the handler is
\* suspended on it), and the calls come in the order deploy-and-setup,
\* adapter deployment, setAddresses, confirmation, manifest write.
C16_Sequential ==
  /\ \A i \in DOMAIN trace :
       trace[i].ev = "call" =>
         \/ i = Len(trace) /\ pc \in Awaiting /\ AwaitedOp(pc) = trace[i].op
         \/ i < Len(trace) /\ trace[i + 1].op = trace[i].op /\ Completion(i + 1)
  /\ pc \in Awaiting => (trace # <<>> /\ Last(trace).ev = "call")
  /\ Precedes("getSigners", "return", "deployAndSetupContracts", "call")
  /\ Precedes("deployAndSetupContracts", "return", "deployTellorCaller", "call")
  /\ Precedes("deployTellorCaller", "return", "setAddresses", "call")
  /\ Precedes("setAddresses", "return", "wait", "call")
  /\ \A k \in DOMAIN trace :
       trace[k].op \in {"mkdirSync", "writeFileSync"} =>
         /\ \E j \in Idx("deployAndSetupContracts", "return") : j < k
         /\ \A i \in DOMAIN trace : trace[i].ev = "call" => i < k
         /\ HasOp("wait") => \E j \in Idx("wait", "return") : j < k

C16_Witness ==
  /\ pc = "wait"
  /\ Last(trace) = Event("wait", "call", "tx")
  /\ HasEvent("setAddresses", "return")
  /\ HasEvent("deployTellorCaller", "return")

\* ------------------------------------------------------------------ C17
\* the manifest file of the pair (channel c, network n)
ManifestOf(c, n) == ManifestPath(c, n)

FileUnchanged(p) ==
  /\ p \in DOMAIN files' <=> p \in DOMAIN files
  /\ p \in DOMAIN files => files'[p] = files[p]

\* C17: a step of a run for (channel c, network n) leaves the manifest file
\* of every other (channel, network) pair as it was: neither created nor
\* overwritten.
C17_FrameEffect ==
  [][\A c \in Channels, n \in Networks :
       <<c, n>> # <<params'.channel, network'>> => FileUnchanged(ManifestOf(c, n))]_vars

\* ------------------------------------------------------------------ C18
\* line 215 is reached: deploy-and-setup has returned, the resolved
\* useRealPriceFeed is true and the assertion at line 213 has passed
InnerGuardReached ==
  /\ HasEvent("deployAndSetupContracts", "return")
  /\ useRealPriceFeed = Some(TRUE)
  /\ error # <<"AssertionError">>

WiredBeforeWrite ==
  /\ HasEvent("setAddresses", "return")
  /\ Precedes("wait", "return", "mkdirSync", "return")
  /\ Precedes("wait", "return", "writeFileSync", "return")
  /\ \A i \in Idx("wait", "return") : \E j \in Idx("setAddresses", "return") : j < i

\* C18: whenever the current run has written its manifest with the resolved
\* useRealPriceFeed true, the network has oracle support and the
\* setAddresses transaction was confirmed in this run before the write;
\* and whenever the inner hasOracles guard has been reached, it is true.
C18_NoUnwiredRealFeed ==
  /\ (ManifestWritten /\ useRealPriceFeed = Some(TRUE)) =>
       (hasOracles(network) /\ WiredBeforeWrite)
  /\ InnerGuardReached => hasOracles(network)

C18_Witness ==
  /\ pc = "done"
  /\ ManifestWritten
  /\ useRealPriceFeed = Some(TRUE)
  /\ params.useRealPriceFeed = Undefined
  /\ network = "mainnet"
  /\ WiredBeforeWrite

\* ------------------------------------------------------------------ C19
BothUnset ==
  /\ params.useRealPriceFeed = Undefined
  /\ params.createUniswapPair = Undefined

ConfigurationError == error \in {PriceFeedError, WETHError}

DeployAndSetupReached == HasEvent("deployAndSetupContracts", "call")

\* C19 as stated: a finished run with both parameters unset has never
\* failed with a configuration error and has reached deploy-and-setup.
C19_Original ==
  (runNo > 0 /\ BothUnset /\ Ended) => (~ConfigurationError /\ DeployAndSetupReached)

\* C19: a run with both parameters unset, on any declared network, never
\* fails with a configuration error; the defaulted useRealPriceFeed is true
\* exactly on mainnet, which has oracles; and once getSigners has returned,
\* validation has passed and deploy-and-setup has been called.
C19_DefaultsValidate ==
  (runNo > 0 /\ BothUnset) =>
    /\ ~ConfigurationError
    /\ network \in Networks
    /\ HasEvent("getSigners", "return") =>
         /\ useRealPriceFeed = Some(network = "mainnet")
         /\ TheValue(useRealPriceFeed) => hasOracles(network)
         /\ wiotxAddress = Undefined
         /\ DeployAndSetupReached

C19_Witness ==
  /\ BothUnset
  /\ network = "testnet"
  /\ useRealPriceFeed = Some(FALSE)
  /\ pc = "deployLiquity"
  /\ DeployAndSetupReached

====
